---- MODULE Spec2Model ----
(***************************************************************************)
(* Model of stock_price.py: one top-to-bottom run of the script.  The run  *)
(* validates the date range, fetches a daily price frame, computes the     *)
(* SMA20/SMA50/SMA100 and RSI columns, builds the summary and writes the   *)
(* recommendation.                                                         *)
(*                                                                         *)
(* Numbers are modelled as exact extended rationals with the IEEE special  *)
(* values the numeric library produces (nan, +inf, -inf): rounding of      *)
(* binary floating point is not modelled.                                  *)
(***************************************************************************)
EXTENDS Integers, Sequences, FiniteSets, TLC

(* ------------------------------ bounds --------------------------------- *)

\* Largest number of daily bars the provider returns.
MaxLen == 101

\* Dates are 0..MaxDate.
MaxDate == 1

(* ------------------------- extended rationals -------------------------- *)

NaN == [k |-> "nan", n |-> 0, d |-> 1]

Inf == [k |-> "inf", n |-> 0, d |-> 1]

NegInf == [k |-> "ninf", n |-> 0, d |-> 1]

Num(x) == [k |-> "num", n |-> x, d |-> 1]

Frac(x, y) == [k |-> "num", n |-> x, d |-> y]

IsNum(a) == a.k = "num"

IsNaN(a) == a.k = "nan"

\* a < b as the numeric library evaluates it: False when either side is nan.
Lt(a, b) ==
  CASE IsNaN(a) \/ IsNaN(b) -> FALSE
    [] a.k = "ninf" -> b.k # "ninf"
    [] a.k = "inf" -> FALSE
    [] b.k = "inf" -> TRUE
    [] b.k = "ninf" -> FALSE
    [] OTHER -> a.n * b.d < b.n * a.d

Gt(a, b) == Lt(b, a)

\* a == b on numbers: False when either side is nan.
Eq(a, b) ==
  CASE IsNaN(a) \/ IsNaN(b) -> FALSE
    [] IsNum(a) /\ IsNum(b) -> a.n * b.d = b.n * a.d
    [] OTHER -> a.k = b.k

Neg(a) ==
  CASE IsNaN(a) -> NaN
    [] a.k = "inf" -> NegInf
    [] a.k = "ninf" -> Inf
    [] OTHER -> Frac(0 - a.n, a.d)

Add(a, b) ==
  CASE IsNaN(a) \/ IsNaN(b) -> NaN
    [] IsNum(a) /\ IsNum(b) -> Frac(a.n * b.d + b.n * a.d, a.d * b.d)
    [] IsNum(a) -> b
    [] IsNum(b) -> a
    [] OTHER -> IF a.k = b.k THEN a ELSE NaN

Sub(a, b) == Add(a, Neg(b))

\* Float division: x/0 is +-inf for x # 0 and nan for x = 0; no error is raised.
Div(a, b) ==
  CASE IsNaN(a) \/ IsNaN(b) -> NaN
    [] IsNum(a) /\ IsNum(b) ->
         IF b.n = 0
           THEN (IF a.n = 0 THEN NaN ELSE IF a.n > 0 THEN Inf ELSE NegInf)
           ELSE IF b.n > 0 THEN Frac(a.n * b.d, a.d * b.n)
                           ELSE Frac(0 - (a.n * b.d), 0 - (a.d * b.n))
    [] IsNum(a) -> Num(0)
    [] IsNum(b) -> IF (a.k = "inf") = (b.n >= 0) THEN Inf ELSE NegInf
    [] OTHER -> NaN

(* ------------------------------ series --------------------------------- *)

\* A Series holds its values: the elementwise expression f is evaluated
\* once into a sequence.
AsSeries(f) == f \o << >>

\* Series.diff(): nan at the first bar, then s[i] - s[i-1].
Diff(s) == AsSeries([i \in 1..Len(s) |-> IF i = 1 THEN NaN ELSE Sub(s[i], s[i - 1])])

\* Series.where(cond, 0): keeps v where cond holds, else 0.
WhereOrZero(cond, v) == IF cond THEN v ELSE Num(0)

RECURSIVE RangeSum(_, _, _)
\* Sum of the values of s at lo..hi that are not nan (lo <= hi), added up
\* by halves.
RangeSum(s, lo, hi) ==
  IF lo = hi THEN (IF IsNaN(s[lo]) THEN Num(0) ELSE s[lo])
  ELSE LET mid == (lo + hi) \div 2
       IN  Add(RangeSum(s, lo, mid), RangeSum(s, mid + 1, hi))

\* Number of values of s at lo..hi that are not nan.
RangeObs(s, lo, hi) == Cardinality({j \in lo..hi : ~IsNaN(s[j])})

\* The mean of the window of s ending at bar i: nan while the window holds
\* fewer than minp observations (a window of fewer than minp bars cannot
\* hold them, so its values are not counted).
WindowMean(s, window, minp, i) ==
  LET lo == IF i > window THEN i - window + 1 ELSE 1
  IN  IF i - lo + 1 < minp THEN NaN
      ELSE LET nobs == RangeObs(s, lo, i)
           IN  IF nobs >= minp /\ nobs > 0
                 THEN Div(RangeSum(s, lo, i), Num(nobs))
                 ELSE NaN

\* Variant: rolling(window, min_periods=1), a mean over a window still filling.
RollingMeanMinPeriods1(s, window) ==
  AsSeries([i \in 1..Len(s) |-> WindowMean(s, window, 1, i)])

\* s.rolling(window=window).mean(): min_periods defaults to the window.
RollingMean(s, window) ==
  AsSeries([i \in 1..Len(s) |-> WindowMean(s, window, window, i)])

RECURSIVE MaxOver(_, _, _)
\* Series.max() over bars lo..hi.
MaxOver(s, lo, hi) ==
  IF lo = hi THEN s[lo]
  ELSE LET mid == (lo + hi) \div 2
           l == MaxOver(s, lo, mid)
           r == MaxOver(s, mid + 1, hi)
       IN  IF Gt(r, l) THEN r ELSE l

RECURSIVE MinOver(_, _, _)
\* Series.min() over bars lo..hi.
MinOver(s, lo, hi) ==
  IF lo = hi THEN s[lo]
  ELSE LET mid == (lo + hi) \div 2
           l == MinOver(s, lo, mid)
           r == MinOver(s, mid + 1, hi)
       IN  IF Lt(r, l) THEN r ELSE l

(* ------------------------------ frames --------------------------------- *)

\* A DataFrame: column names in order and one value sequence per column.
\* None is the absent frame.
None == [isNone |-> TRUE, columns |-> << >>, data |-> << >>]

Frame(cols, data) == [isNone |-> FALSE, columns |-> cols, data |-> data]

NRows(df) == IF df.columns = << >> THEN 0 ELSE Len(df.data[1])

IsEmpty(df) == NRows(df) = 0

HasCol(df, c) == \E j \in 1..Len(df.columns) : df.columns[j] = c

Col(df, c) == df.data[CHOOSE j \in 1..Len(df.columns) : df.columns[j] = c]

\* df[c] = s : replaces the column when it exists, appends it otherwise.
SetCol(df, c, s) ==
  IF HasCol(df, c)
    THEN [df EXCEPT !.data =
            [j \in 1..Len(df.data) |-> IF df.columns[j] = c THEN s ELSE df.data[j]]]
    ELSE [df EXCEPT !.columns = Append(df.columns, c), !.data = Append(df.data, s)]

\* Series.iloc[-1]
Last(s) == s[Len(s)]

(* ------------------------- the price provider -------------------------- *)

\* Daily close-to-close changes the provider's series are built from; a
\* series repeats its pattern.  They cover rising, falling, flat, zigzag
\* and mixed histories, among them windows whose gains and losses stand in
\* the ratios 3:7 and 7:3.
Patterns ==
  << <<0>>, <<1>>, <<-1>>, <<1, -1>>, <<2, -1>>, <<-3, 1>>, <<3, -1>>,
     <<5, -2, -2>>,
     <<1, -1, -1, 0, 1, -1, -1, 0, 1, -1, -1, 0, -1, 0>>,
     <<-1, 1, 1, 0, -1, 1, 1, 0, -1, 1, 1, 0, 1, 0>>,
     <<0, 0, 0, 0, 0, 0, 0, 0, 0, 0, 0, 0, 0, 0, 0, 0, 2>>,
     <<0, 0, 0, 0, 0, 0, 0, 0, 0, 0, 0, 0, 0, 0, 0, 0, -2>> >>

RECURSIVE PatternSum(_, _)
\* Sum of the first k changes of pat (k <= Len(pat)).
PatternSum(pat, k) == IF k = 0 THEN 0 ELSE pat[k] + PatternSum(pat, k - 1)

\* The first len closes of the series that starts at 2 * MaxLen + 2 and
\* repeats the changes of pat.
Closes(pat, len) ==
  AsSeries([i \in 1..len |->
     2 * MaxLen + 2
       + ((i - 1) \div Len(pat)) * PatternSum(pat, Len(pat))
       + PatternSum(pat, (i - 1) % Len(pat))])

\* The OHLCV frame Ticker.history returns for a series of closes.
History(c) ==
  LET n == Len(c)
      open == [i \in 1..n |-> IF i = 1 THEN c[1] ELSE c[i - 1]]
  IN  Frame(<<"Open", "High", "Low", "Close", "Volume">>,
            << [i \in 1..n |-> Num(open[i])],
               [i \in 1..n |-> Num(IF open[i] > c[i] THEN open[i] ELSE c[i])],
               [i \in 1..n |-> Num(IF open[i] < c[i] THEN open[i] ELSE c[i])],
               [i \in 1..n |-> Num(c[i])],
               [i \in 1..n |-> Num(1000 + i)] >>)

\* What one call of the provider does: with pattern 0 it raises, with
\* pattern p > 0 it returns the first len bars of the p-th series (no rows
\* when len = 0).
ProviderResult(p, len) ==
  IF p = 0 THEN [raises |-> TRUE, frame |-> None]
  ELSE [raises |-> FALSE, frame |-> History(Closes(Patterns[p], len))]

(* ------------------------------ messages ------------------------------- *)

DateRangeError == "Error: End date must fall after start date."

\* The message names the selected symbol, which the model leaves out.
FetchError == "Failed to fetch data. Please try again."

NoDataError == "No data available for the selected stock and data range."

Buy == "Potential Buy signal based on moving averages (Close > SMA20 > SMA50)."

Sell == "Potential Sell signal based on moving averages (Close < SMA20 < SMA50)."

Hold == "Hold signal based on moving averages."

Oversold == "RSI indicates the stock is oversold. Potential buy opportunity."

Overbought == "RSI indicates the stock is overbought. Potential sell opportunity."

Neutral == "RSI is neutral."

(* ------------------------------- state --------------------------------- *)

VARIABLES
  start_date,      \* st.date_input("Start date")
  end_date,        \* st.date_input("End date")
  pc,              \* position of the run in the script
  data_df,         \* the frame the script works on
  cache,           \* st.cache_data entries of fetch_stock_data
  fetch_calls,     \* number of calls of fetch_stock_data in this run
  errors,          \* st.error messages shown, in order
  latest_close,
  highest_price,
  lowest_price,
  summary,         \* the summary dict as a sequence of <<name, value>>
  recommendation   \* the sentences of the recommendation, in order

vars == << start_date, end_date, pc, data_df, cache, fetch_calls, errors,
           latest_close, highest_price, lowest_price, summary, recommendation >>

Dates == 0..MaxDate

Init ==
  /\ start_date \in Dates
  /\ end_date \in Dates
  /\ pc = "validate"
  /\ data_df = None
  /\ cache = {}
  /\ fetch_calls = 0
  /\ errors = << >>
  /\ latest_close = NaN
  /\ highest_price = NaN
  /\ lowest_price = NaN
  /\ summary = << >>
  /\ recommendation = << >>

(* ----------------------------- operations ------------------------------ *)

\* Variant: the provider call without the try/except.
fetch_stock_data_unguarded(provider) ==
  IF provider.raises
    THEN [ret |-> None, errors |-> << >>, raised |-> TRUE]
    ELSE [ret |-> provider.frame, errors |-> << >>, raised |-> FALSE]

\* fetch_stock_data: the provider call inside try/except.  A raise is
\* caught, reported with st.error and turned into None.
fetch_stock_data(provider) ==
  IF provider.raises
    THEN [ret |-> None, errors |-> << FetchError >>, raised |-> FALSE]
    ELSE [ret |-> provider.frame, errors |-> << >>, raised |-> FALSE]

\* Variant: the range test with > in place of >=.
InvalidRangeStrict(start, end) == start > end

\* start_date >= end_date
InvalidRange(start, end) == start >= end


\* if start_date >= end_date: st.error(...)  else: go on to the fetch.
Validate ==
  /\ pc = "validate"
  /\ IF InvalidRange(start_date, end_date)
       THEN /\ errors' = Append(errors, DateRangeError)
            /\ pc' = "done"
       ELSE /\ errors' = errors
            /\ pc' = "fetch"
  /\ UNCHANGED << start_date, end_date, data_df, cache, fetch_calls,
                  latest_close, highest_price, lowest_price, summary,
                  recommendation >>

\* data_df = fetch_stock_data(selected_stock, start_date, end_date)
\* The cache keeps the value the function returned; the caller gets a copy.
Fetch ==
  /\ pc = "fetch"
  /\ \E p \in 0..Len(Patterns), len \in 0..MaxLen :
       LET res == fetch_stock_data(ProviderResult(p, len))
       IN  /\ fetch_calls' = fetch_calls + 1
           /\ errors' = errors \o res.errors
           /\ IF res.raised
                THEN /\ pc' = "crashed"
                     /\ UNCHANGED << data_df, cache >>
                ELSE /\ pc' = "check"
                     /\ data_df' = res.ret
                     /\ cache' = cache \cup
                          { [start |-> start_date, end |-> end_date, value |-> res.ret] }
  /\ UNCHANGED << start_date, end_date, latest_close, highest_price,
                  lowest_price, summary, recommendation >>

\* if data_df is not None and not data_df.empty: ... else: st.error(...)
CheckData ==
  /\ pc = "check"
  /\ IF ~data_df.isNone /\ ~IsEmpty(data_df)
       THEN /\ pc' = "stats"
            /\ errors' = errors
       ELSE /\ pc' = "done"
            /\ errors' = Append(errors, NoDataError)
  /\ UNCHANGED << start_date, end_date, data_df, cache, fetch_calls,
                  latest_close, highest_price, lowest_price, summary,
                  recommendation >>

\* latest close, highest and lowest close of the range.
Stats ==
  /\ pc = "stats"
  /\ latest_close' = Last(Col(data_df, "Close"))
  /\ highest_price' = MaxOver(Col(data_df, "Close"), 1, NRows(data_df))
  /\ lowest_price' = MinOver(Col(data_df, "Close"), 1, NRows(data_df))
  /\ pc' = "sma"
  /\ UNCHANGED << start_date, end_date, data_df, cache, fetch_calls, errors,
                  summary, recommendation >>

\* data_df['SMA20'/'SMA50'/'SMA100'] = data_df['Close'].rolling(window=n).mean()
WithMovingAverages(df) ==
  LET d1 == SetCol(df, "SMA20", RollingMean(Col(df, "Close"), 20))
      d2 == SetCol(d1, "SMA50", RollingMean(Col(d1, "Close"), 50))
  IN  SetCol(d2, "SMA100", RollingMean(Col(d2, "Close"), 100))

MovingAverages ==
  /\ pc = "sma"
  /\ data_df' = WithMovingAverages(data_df)
  /\ pc' = "rsi"
  /\ UNCHANGED << start_date, end_date, cache, fetch_calls, errors,
                  latest_close, highest_price, lowest_price, summary,
                  recommendation >>

\* delta.where(delta > 0, 0)
GainOf(dl) == WhereOrZero(Gt(dl, Num(0)), dl)

\* Variant: the loss keeps the sign of the change (the negation is missing).
LossOfSigned(dl) == WhereOrZero(Lt(dl, Num(0)), dl)

\* -delta.where(delta < 0, 0)
LossOf(dl) == Neg(WhereOrZero(Lt(dl, Num(0)), dl))

\* 100 - (100 / (1 + rs))
RsiOf(rs) == Sub(Num(100), Div(Num(100), Add(Num(1), rs)))

\* The RSI column computed from the close column.
RSI(close) ==
  LET delta == Diff(close)
      gain == RollingMean(AsSeries([i \in 1..Len(delta) |-> GainOf(delta[i])]), 14)
      loss == RollingMean(AsSeries([i \in 1..Len(delta) |-> LossOf(delta[i])]), 14)
      rs == AsSeries([i \in 1..Len(close) |-> Div(gain[i], loss[i])])
  IN  AsSeries([i \in 1..Len(close) |-> RsiOf(rs[i])])

WithRSI(df) == SetCol(df, "RSI", RSI(Col(df, "Close")))

ComputeRSI ==
  /\ pc = "rsi"
  /\ data_df' = WithRSI(data_df)
  /\ pc' = "summary"
  /\ UNCHANGED << start_date, end_date, cache, fetch_calls, errors,
                  latest_close, highest_price, lowest_price, summary,
                  recommendation >>

\* summary = {...}: the latest values of the derived columns.
SummaryOf(df, latest, highest, lowest) ==
  << <<"Latest Close", latest>>,
     <<"Highest Price", highest>>,
     <<"Lowest Price", lowest>>,
     <<"RSI", Last(Col(df, "RSI"))>>,
     <<"SMA20", Last(Col(df, "SMA20"))>>,
     <<"SMA50", Last(Col(df, "SMA50"))>>,
     <<"SMA100", Last(Col(df, "SMA100"))>> >>

Summary ==
  /\ pc = "summary"
  /\ summary' = SummaryOf(data_df, latest_close, highest_price, lowest_price)
  /\ pc' = "recommend"
  /\ UNCHANGED << start_date, end_date, data_df, cache, fetch_calls, errors,
                  latest_close, highest_price, lowest_price, recommendation >>

\* Variant: the moving-average rule with non-strict comparisons.
TrendSentenceNonStrict(close, sma20, sma50) ==
  IF ~Lt(close, sma20) /\ ~Lt(sma20, sma50) /\ ~IsNaN(close) /\ ~IsNaN(sma20)
     /\ ~IsNaN(sma50) THEN Buy
  ELSE IF ~Gt(close, sma20) /\ ~Gt(sma20, sma50) /\ ~IsNaN(close) /\ ~IsNaN(sma20)
     /\ ~IsNaN(sma50) THEN Sell
  ELSE Hold

\* The moving-average rule on the latest close, SMA20 and SMA50.
TrendSentence(close, sma20, sma50) ==
  IF Gt(close, sma20) /\ Gt(sma20, sma50) THEN Buy
  ELSE IF Lt(close, sma20) /\ Lt(sma20, sma50) THEN Sell
  ELSE Hold

\* Variant: the RSI rule with non-strict thresholds.
RsiSentenceNonStrict(rsi) ==
  IF Lt(rsi, Num(30)) \/ Eq(rsi, Num(30)) THEN Oversold
  ELSE IF Gt(rsi, Num(70)) \/ Eq(rsi, Num(70)) THEN Overbought
  ELSE Neutral

\* The RSI rule on the latest RSI.
RsiSentence(rsi) ==
  IF Lt(rsi, Num(30)) THEN Oversold
  ELSE IF Gt(rsi, Num(70)) THEN Overbought
  ELSE Neutral

\* recommendation = "" ; += trend sentence ; += RSI sentence
RecommendationOf(df) ==
  << TrendSentence(Last(Col(df, "Close")), Last(Col(df, "SMA20")),
                   Last(Col(df, "SMA50"))),
     RsiSentence(Last(Col(df, "RSI"))) >>

Recommend ==
  /\ pc = "recommend"
  /\ recommendation' = RecommendationOf(data_df)
  /\ pc' = "done"
  /\ UNCHANGED << start_date, end_date, data_df, cache, fetch_calls, errors,
                  latest_close, highest_price, lowest_price, summary >>

Next ==
  \/ Validate
  \/ Fetch
  \/ CheckData
  \/ Stats
  \/ MovingAverages
  \/ ComputeRSI
  \/ Summary
  \/ Recommend

Spec == Init /\ [][Next]_vars


(* ------------------- the recommendation rules alone -------------------- *)

\* The rules read only the last row of the frame (iloc[-1]).  This
\* specification starts the run at the recommendation with a frame cut down
\* to that last row, whose values range over the cases of the rules.
CloseValues == { Num(95), Num(100), Num(105) }

Sma20Values == { NaN, Num(96), Num(100), Num(104), Frac(209, 2) }

Sma50Values == { NaN, Num(97), Num(100), Num(103), Num(105) }

RsiValues ==
  { NaN, Num(0), Frac(299, 10), Num(30), Frac(301, 10), Num(50),
    Frac(699, 10), Num(70), Frac(701, 10), Num(100) }

LastRow(close, sma20, sma50, rsi) ==
  Frame(<<"Open", "High", "Low", "Close", "Volume", "SMA20", "SMA50", "SMA100", "RSI">>,
        << <<close>>, <<close>>, <<close>>, <<close>>, <<Num(1000)>>,
           <<sma20>>, <<sma50>>, <<NaN>>, <<rsi>> >>)

InitAdvisor ==
  /\ start_date = 0
  /\ end_date = 1
  /\ pc = "recommend"
  /\ \E c \in CloseValues, s20 \in Sma20Values, s50 \in Sma50Values, r \in RsiValues :
       /\ data_df = LastRow(c, s20, s50, r)
       /\ latest_close = c
       /\ highest_price = c
       /\ lowest_price = c
       /\ summary = SummaryOf(data_df, c, c, c)
  /\ cache = {}
  /\ fetch_calls = 1
  /\ errors = << >>
  /\ recommendation = << >>

NextAdvisor == Recommend

SpecAdvisor == InitAdvisor /\ [][NextAdvisor]_vars

(* ------------------------------ properties ----------------------------- *)

\* The run is past the moving-average stage.
AfterSMA == pc \in {"rsi", "summary", "recommend", "done"} /\ ~IsEmpty(data_df)

\* The run is past the RSI stage.
AfterRSI == pc \in {"summary", "recommend", "done"} /\ ~IsEmpty(data_df)

\* The run has written its recommendation.
Recommended == pc = "done" /\ Len(recommendation) = 2

RECURSIVE WindowSum(_, _, _)
\* Sum of the closes at bars lo..hi, ten bars at a time.
WindowSum(close, lo, hi) ==
  IF lo > hi THEN 0
  ELSE IF hi - lo >= 10
    THEN WindowSum(close, lo, lo + 9) + WindowSum(close, lo + 10, hi)
    ELSE close[hi].n + WindowSum(close, lo, hi - 1)

SmaColumn(n) == IF n = 20 THEN "SMA20" ELSE IF n = 50 THEN "SMA50" ELSE "SMA100"

\* C1: for n in {20, 50, 100}, SMA(n) is undefined at every bar before the
\* n-th and from the n-th bar on it is the arithmetic mean of exactly the n
\* closes ending at that bar.
C1_SmaIsWindowMean ==
  AfterSMA =>
    \A n \in {20, 50, 100} :
      LET sma == Col(data_df, SmaColumn(n))
          close == Col(data_df, "Close")
      IN  \A i \in 1..NRows(data_df) :
            IF i < n
              THEN IsNaN(sma[i])
              ELSE /\ IsNum(sma[i])
                   /\ sma[i].n * n = sma[i].d * WindowSum(close, i - n + 1, i)

\* A run over at least 100 bars of a series that is not flat, whose SMA100
\* is undefined at bar 99 and defined at the last bar.
C1_Witness ==
  /\ pc = "done"
  /\ NRows(data_df) > 100
  /\ HasCol(data_df, "SMA100")
  /\ IsNaN(Col(data_df, "SMA100")[99])
  /\ IsNum(Last(Col(data_df, "SMA100")))
  /\ ~Eq(Last(Col(data_df, "SMA20")), Last(Col(data_df, "SMA50")))

\* No close falls over the 14 changes ending at bar i.
NoLossInWindow(close, i) == \A j \in (i - 13)..i : close[j].n >= close[j - 1].n

\* C2: whenever the 14 changes ending at a bar contain no loss (rising or
\* flat), RSI at that bar is 100.
C2_ZeroLossGives100 ==
  AfterRSI =>
    LET close == Col(data_df, "Close")
        rsi == Col(data_df, "RSI")
    IN  \A i \in 15..NRows(data_df) :
          NoLossInWindow(close, i) => Eq(rsi[i], Num(100))

\* C3: a sub-signal whose inputs are undefined is reported as indeterminate,
\* not as one of the rule's categories.
C3_UndefinedIsIndeterminate ==
  Recommended =>
    /\ IsNaN(Last(Col(data_df, "SMA20"))) \/ IsNaN(Last(Col(data_df, "SMA50")))
         => recommendation[1] \notin {Buy, Sell, Hold}
    /\ IsNaN(Last(Col(data_df, "RSI")))
         => recommendation[2] \notin {Oversold, Overbought, Neutral}

\* C4: RSI is undefined at each of the first 14 bars.
C4_RsiNeeds15Bars ==
  AfterRSI =>
    \A i \in 1..NRows(data_df) : i <= 14 => IsNaN(Col(data_df, "RSI")[i])

\* The closes fall strictly over bars 1..15.
FallsOver15(close) == \A j \in 2..15 : close[j].n < close[j - 1].n

\* C5: a defined RSI lies in [0, 100], and RSI at bar 15 of a series that
\* falls strictly over its first 15 bars is 0.
C5_RsiRange ==
  AfterRSI =>
    LET close == Col(data_df, "Close")
        rsi == Col(data_df, "RSI")
    IN  /\ \A i \in 1..NRows(data_df) :
             ~IsNaN(rsi[i]) =>
               /\ IsNum(rsi[i])
               /\ 0 <= rsi[i].n
               /\ rsi[i].n <= 100 * rsi[i].d
        /\ NRows(data_df) >= 15 /\ FallsOver15(close)
             => IsNum(rsi[15]) /\ rsi[15].n = 0

\* A finished run over a series of at least 15 bars that falls strictly
\* over its first 15 bars and has RSI 0 at bar 15.
C5_Witness ==
  /\ Recommended
  /\ NRows(data_df) >= 15
  /\ FallsOver15(Col(data_df, "Close"))
  /\ Eq(Col(data_df, "RSI")[15], Num(0))

\* a < b on defined numbers, by cross-multiplication.
Below(a, b) == a.n * b.d < b.n * a.d

\* C6: on defined latest close, SMA20 and SMA50 the first sentence is Buy
\* iff close > SMA20 > SMA50, else Sell iff close < SMA20 < SMA50, else
\* Hold; the second sentence is the RSI sentence.
C6_TrendRule ==
  Recommended =>
    LET c == Last(Col(data_df, "Close"))
        s20 == Last(Col(data_df, "SMA20"))
        s50 == Last(Col(data_df, "SMA50"))
        up == Below(s20, c) /\ Below(s50, s20)
        down == Below(c, s20) /\ Below(s20, s50)
    IN  /\ recommendation[2] \in {Oversold, Overbought, Neutral}
        /\ IsNum(c) /\ IsNum(s20) /\ IsNum(s50) =>
             /\ recommendation[1] \in {Buy, Sell, Hold}
             /\ recommendation[1] = Buy <=> up
             /\ recommendation[1] = Sell <=> (~up /\ down)
             /\ recommendation[1] = Hold <=> (~up /\ ~down)

\* A recommendation on a latest close equal to a defined SMA20 above a
\* defined SMA50.
C6_Witness ==
  /\ Recommended
  /\ IsNum(Last(Col(data_df, "SMA50")))
  /\ Eq(Last(Col(data_df, "Close")), Last(Col(data_df, "SMA20")))
  /\ Lt(Last(Col(data_df, "SMA50")), Last(Col(data_df, "SMA20")))
  /\ recommendation[1] = Hold

\* C7: on a defined latest RSI the RSI sentence is Oversold iff RSI < 30,
\* Overbought iff RSI > 70 and Neutral otherwise, whatever the trend
\* sentence is.
C7_RsiRule ==
  Recommended =>
    LET rsi == Last(Col(data_df, "RSI"))
    IN  IsNum(rsi) =>
          /\ recommendation[2] = Oversold <=> Below(rsi, Num(30))
          /\ recommendation[2] = Overbought <=> Below(Num(70), rsi)
          /\ recommendation[2] = Neutral <=>
               (~Below(rsi, Num(30)) /\ ~Below(Num(70), rsi))

\* A recommendation on a latest RSI of exactly 30 next to a Buy sentence.
C7_Witness ==
  /\ Recommended
  /\ Eq(Last(Col(data_df, "RSI")), Num(30))
  /\ recommendation = << Buy, Neutral >>

\* C8: a run with start >= end never calls the fetch: it ends with the
\* validation error and nothing else; the fetch is called only when
\* start < end.
C8_NoFetchOnInvalidRange ==
  /\ fetch_calls > 0 => start_date < end_date
  /\ start_date >= end_date =>
       /\ pc \in {"validate", "done"}
       /\ fetch_calls = 0
       /\ cache = {}
       /\ data_df = None
       /\ summary = << >>
       /\ recommendation = << >>
       /\ pc = "done" => errors = << DateRangeError >>

\* A finished run with start = end.
C8_Witness ==
  /\ pc = "done"
  /\ start_date = end_date
  /\ errors = << DateRangeError >>

\* The frame carries none of the derived columns.
NoDerivedColumns(df) ==
  \A c \in {"SMA20", "SMA50", "SMA100", "RSI"} : ~HasCol(df, c)

\* The fetch reported a failure of the provider.
FetchFailed == \E k \in 1..Len(errors) : errors[k] = FetchError

\* C9: a raise of the provider does not leave fetch, which returns absent;
\* an absent or empty series ends the run with "no data" and no indicator,
\* summary or recommendation; a recommendation is written only for a
\* non-empty series.
C9_NoDataOutcome ==
  /\ pc # "crashed"
  /\ FetchFailed => data_df = None /\ pc \in {"check", "done"}
  /\ pc \in {"stats", "sma", "rsi", "summary", "recommend"}
       => ~data_df.isNone /\ ~IsEmpty(data_df)
  /\ pc = "done" /\ start_date < end_date /\ (data_df.isNone \/ IsEmpty(data_df))
       => /\ Last(errors) = NoDataError
          /\ NoDerivedColumns(data_df)
          /\ latest_close = NaN
          /\ summary = << >>
          /\ recommendation = << >>
  /\ recommendation # << >>
       => ~data_df.isNone /\ ~IsEmpty(data_df) /\ fetch_calls = 1

\* A finished run whose provider call raised.
C9_Witness ==
  /\ pc = "done"
  /\ errors = << FetchError, NoDataError >>
  /\ data_df = None

\* C10: after the indicator stage the frame is the frame the fetch
\* returned: same bars, same columns, same values.
C10_InputNotMutated ==
  AfterSMA => \A e \in cache : data_df = e.value

====
